---- MODULE Spec2Model ----
(***************************************************************************)
(* A model of examples/netfilter/netfilter.c: the filter string built from *)
(* the command line, the four pre-fabricated response packets, and the     *)
(* main loop that answers every diverted packet with a TCP RST or an       *)
(* ICMP(v6) "destination unreachable".                                     *)
(*                                                                         *)
(* Memory is modelled as the program sees it on its little-endian target:  *)
(* a received packet is a sequence of bytes, a header field read through a *)
(* header pointer is the host-order value of the bytes at that offset, and *)
(* htons/htonl/ntohs/ntohl swap bytes.                                     *)
(***************************************************************************)
EXTENDS Integers, Sequences, FiniteSets, TLC

(***************************************************************************)
(* Bounds of the model.                                                    *)
(***************************************************************************)
\* At most this many command-line arguments after the program name.
MaxArgs == 2

(***************************************************************************)
(* Program constants.                                                      *)
(***************************************************************************)
MAXBUF == 2048
EXIT_FAILURE == 1
ERROR_INVALID_PARAMETER == 87
ERROR_OTHER == 2
NULL == 0 - 1
INVALID_HANDLE_VALUE == 0 - 1
DIVERT_PACKET_DIRECTION_OUTBOUND == 0
DIVERT_PACKET_DIRECTION_INBOUND == 1
IPPROTO_ICMP == 1
IPPROTO_TCP == 6
IPPROTO_ICMPV6 == 58

\* sizeof() of the structures of divert.h.
SizeofDIVERT_PACKET == 16
SizeofDIVERT_IPHDR == 20
SizeofDIVERT_IPV6HDR == 40
SizeofDIVERT_TCPHDR == 20
SizeofDIVERT_ICMPHDR == 8
SizeofDIVERT_ICMPV6HDR == 8
SizeofUINT32 == 4

\* sizeof() of the structures of netfilter.c (no padding: every member is a
\* multiple of four bytes long).
SizeofPACKET == SizeofDIVERT_PACKET + SizeofDIVERT_IPHDR
SizeofPACKETV6 == SizeofDIVERT_PACKET + SizeofDIVERT_IPV6HDR
SizeofTCPPACKET == SizeofPACKET + SizeofDIVERT_TCPHDR
SizeofTCPV6PACKET == SizeofPACKETV6 + SizeofDIVERT_TCPHDR
SizeofICMPPACKET == SizeofPACKET + SizeofDIVERT_ICMPHDR
SizeofICMPV6PACKET == SizeofPACKETV6 + SizeofDIVERT_ICMPV6HDR

(***************************************************************************)
(* Bytes and byte order.                                                   *)
(***************************************************************************)
\* A UINT8 and a UINT16 are numbers.  A UINT32 is held as its four bytes in
\* memory, lowest address first (a 32-bit value does not fit the integers of
\* the model checker); on the little-endian host the first byte is the least
\* significant one.
UINT32(n) == << n % 256, (n \div 256) % 256, (n \div 65536) % 256, (n \div 16777216) % 256 >>

\* a + b in 32-bit unsigned arithmetic.
Add32(a, b) ==
    LET s1 == a[1] + b[1]
        s2 == a[2] + b[2] + (s1 \div 256)
        s3 == a[3] + b[3] + (s2 \div 256)
        s4 == a[4] + b[4] + (s3 \div 256)
    IN  << s1 % 256, s2 % 256, s3 % 256, s4 % 256 >>

\* The value a little-endian host reads from the two bytes of b at offset o
\* (b is 1-based; o is the byte offset as C counts it).
LE16(b, o) == b[o + 1] + (256 * b[o + 2])

\* The bytes as they are on the wire (big-endian) of a number.
BE16(x) == << (x \div 256) % 256, x % 256 >>
BE32(x) == << (x \div 16777216) % 256, (x \div 65536) % 256, (x \div 256) % 256, x % 256 >>

htons(x) == ((x % 256) * 256) + ((x \div 256) % 256)
ntohs(x) == htons(x)
htonl(x) == << x[4], x[3], x[2], x[1] >>
ntohl(x) == htonl(x)

\* C's logical not.
LNot(x) == IF x = 0 THEN 1 ELSE 0

\* memcpy(dst, src + off, n), dst and src sequences of bytes: the first n bytes
\* of dst are replaced, the rest of dst is kept.
Memcpy(dst, src, off, n) ==
    [k \in 1..Len(dst) |-> IF k <= n THEN src[off + k] ELSE dst[k]]

Zeros(n) == [k \in 1..n |-> 0]

(***************************************************************************)
(* Strings: a string is a sequence of runs [c |-> character, n |-> count]. *)
(***************************************************************************)
RECURSIVE strlen(_)
strlen(s) == IF s = << >> THEN 0 ELSE s[1].n + strlen(Tail(s))

\* The arguments a run may be started with.
ArgChoices ==
    { << [c |-> "a", n |-> 1023] >>,
      << [c |-> "b", n |-> 1022] >>,
      << [c |-> "c", n |-> 2047] >> }

RECURSIVE SeqsUpTo(_, _)
SeqsUpTo(S, n) ==
    IF n = 0 THEN { << >> }
    ELSE LET shorter == SeqsUpTo(S, n - 1)
         IN  shorter \cup { Append(s, x) : s \in shorter, x \in S }

(***************************************************************************)
(* Headers read through a header pointer.  A pointer is the offset of the  *)
(* header in the packet data (the bytes after the DIVERT_PACKET envelope), *)
(* or NULL.  Bytes of the receive buffer that DivertRecv has never written *)
(* are indeterminate: UNINIT.                                              *)
(***************************************************************************)
UNINIT == 256

\* Byte k (1-based) of the receive buffer's data.
ByteAt(data, k) == IF 1 <= k /\ k <= Len(data) THEN data[k] ELSE UNINIT

\* The n bytes of the receive buffer's data from offset off.
Bytes(data, off, n) == [k \in 1..n |-> ByteAt(data, off + k)]

IpHdrLength(data, ip) == ByteAt(data, ip + 1) % 16
IpSrcAddr(data, ip) == Bytes(data, ip + 12, 4)
IpDstAddr(data, ip) == Bytes(data, ip + 16, 4)
Ipv6SrcAddr(data, ip6) == Bytes(data, ip6 + 8, 16)
Ipv6DstAddr(data, ip6) == Bytes(data, ip6 + 24, 16)
TcpSrcPort(data, t) == LE16(Bytes(data, t, 2), 0)
TcpDstPort(data, t) == LE16(Bytes(data, t + 2, 2), 0)
TcpSeqNum(data, t) == Bytes(data, t + 4, 4)
TcpAckNum(data, t) == Bytes(data, t + 8, 4)
TcpSyn(data, t) == (ByteAt(data, t + 14) \div 2) % 2
TcpAck(data, t) == (ByteAt(data, t + 14) \div 16) % 2

(***************************************************************************)
(* The pre-fabricated packets.                                             *)
(***************************************************************************)
ZeroDIVERT_PACKET == [IfIdx |-> 0, SubIfIdx |-> 0, Direction |-> 0]
ZeroDIVERT_IPHDR ==
    [HdrLength |-> 0, Version |-> 0, TOS |-> 0, Length |-> 0, Id |-> 0,
     FragOff0 |-> 0, TTL |-> 0, Protocol |-> 0, Checksum |-> 0,
     SrcAddr |-> UINT32(0), DstAddr |-> UINT32(0)]
ZeroDIVERT_IPV6HDR ==
    [Version |-> 0, TrafficClass |-> 0, FlowLabel |-> 0, Length |-> 0,
     NextHdr |-> 0, HopLimit |-> 0, SrcAddr |-> Zeros(16), DstAddr |-> Zeros(16)]
ZeroDIVERT_TCPHDR ==
    [SrcPort |-> 0, DstPort |-> 0, SeqNum |-> UINT32(0), AckNum |-> UINT32(0),
     Reserved1 |-> 0, HdrLength |-> 0,
     Fin |-> 0, Syn |-> 0, Rst |-> 0, Psh |-> 0, Ack |-> 0, Urg |-> 0,
     Reserved2 |-> 0, Window |-> 0, Checksum |-> 0, UrgPtr |-> 0]
ZeroDIVERT_ICMPHDR == [Type |-> 0, Code |-> 0, Checksum |-> 0, Body |-> UINT32(0)]

MutDnrDataCap == 15 * SizeofUINT32

\* Capacity of the data[] region of dnr0 and of dnrv6_0.
DnrDataCap == 15 * SizeofUINT32 + 8 + 1
Dnrv6DataCap == SizeofDIVERT_IPV6HDR + SizeofDIVERT_TCPHDR

\* The four buffers as main() finds them on its stack: indeterminate.
StackTCPPACKET ==
    [header |-> [divert |-> ZeroDIVERT_PACKET, ip |-> ZeroDIVERT_IPHDR],
     tcp |-> ZeroDIVERT_TCPHDR]
StackTCPV6PACKET ==
    [header |-> [divert |-> ZeroDIVERT_PACKET, ipv6 |-> ZeroDIVERT_IPV6HDR],
     tcp |-> ZeroDIVERT_TCPHDR]
StackICMPPACKET ==
    [header |-> [divert |-> ZeroDIVERT_PACKET, ip |-> ZeroDIVERT_IPHDR],
     icmp |-> ZeroDIVERT_ICMPHDR,
     data |-> [k \in 1..DnrDataCap |-> UNINIT]]
StackICMPV6PACKET ==
    [header |-> [divert |-> ZeroDIVERT_PACKET, ipv6 |-> ZeroDIVERT_IPV6HDR],
     icmpv6 |-> ZeroDIVERT_ICMPHDR,
     data |-> [k \in 1..Dnrv6DataCap |-> UNINIT]]

PacketIpInit ==
    [divert |-> ZeroDIVERT_PACKET,
     ip |-> [ZeroDIVERT_IPHDR EXCEPT
                !.Version = 4,
                !.HdrLength = SizeofDIVERT_IPHDR \div SizeofUINT32,
                !.Id = ntohs(57005),
                !.TTL = 64]]

PacketIpTcpInit ==
    [header |-> [PacketIpInit EXCEPT
                    !.ip.Length = htons(SizeofTCPPACKET - SizeofDIVERT_PACKET),
                    !.ip.Protocol = IPPROTO_TCP],
     tcp |-> [ZeroDIVERT_TCPHDR EXCEPT
                !.HdrLength = SizeofDIVERT_TCPHDR \div SizeofUINT32]]

\* memset() clears sizeof(ICMPPACKET) bytes: data[] keeps what it held.
PacketIpIcmpInit(packet) ==
    [header |-> [PacketIpInit EXCEPT !.ip.Protocol = IPPROTO_ICMP],
     icmp |-> ZeroDIVERT_ICMPHDR,
     data |-> packet.data]

PacketIpv6Init ==
    [divert |-> ZeroDIVERT_PACKET,
     ipv6 |-> [ZeroDIVERT_IPV6HDR EXCEPT !.Version = 6, !.HopLimit = 64]]

PacketIpv6TcpInit ==
    [header |-> [PacketIpv6Init EXCEPT
                    !.ipv6.Length = htons(SizeofDIVERT_TCPHDR),
                    !.ipv6.NextHdr = IPPROTO_TCP],
     tcp |-> [ZeroDIVERT_TCPHDR EXCEPT
                !.HdrLength = SizeofDIVERT_TCPHDR \div SizeofUINT32]]

PacketIpv6Icmpv6Init(packet) ==
    [header |-> [PacketIpv6Init EXCEPT !.ipv6.NextHdr = IPPROTO_ICMPV6],
     icmpv6 |-> ZeroDIVERT_ICMPHDR,
     data |-> packet.data]

\* main(), lines 143-157: the templates as the main loop first finds them.
InitReset == [PacketIpTcpInit EXCEPT !.tcp.Rst = 1, !.tcp.Ack = 1]
InitDnr(packet) == [PacketIpIcmpInit(packet) EXCEPT !.icmp.Type = 3, !.icmp.Code = 3]
InitResetv6 == [PacketIpv6TcpInit EXCEPT !.tcp.Rst = 1, !.tcp.Ack = 1]
InitDnrv6(packet) ==
    [PacketIpv6Icmpv6Init(packet) EXCEPT
        !.header.ipv6.Length = htons(SizeofDIVERT_ICMPV6HDR + 4
                                     + SizeofDIVERT_IPV6HDR + SizeofDIVERT_TCPHDR),
        !.icmpv6.Type = 1,
        !.icmpv6.Code = 4]

(***************************************************************************)
(* The memory image of a template and the checksums DivertHelperCalc-      *)
(* Checksums writes into it (the standard Internet checksum).              *)
(***************************************************************************)
Mem16(v) == << v % 256, (v \div 256) % 256 >>
Mem32(v) == v

BytesIPHDR(ip) ==
    << ip.HdrLength + (16 * ip.Version), ip.TOS >> \o Mem16(ip.Length) \o Mem16(ip.Id)
    \o Mem16(ip.FragOff0) \o << ip.TTL, ip.Protocol >> \o Mem16(ip.Checksum)
    \o Mem32(ip.SrcAddr) \o Mem32(ip.DstAddr)

BytesIPV6HDR(ipv6) ==
    << ipv6.TrafficClass + (16 * ipv6.Version), 0 >> \o Mem16(ipv6.FlowLabel)
    \o Mem16(ipv6.Length) \o << ipv6.NextHdr, ipv6.HopLimit >>
    \o ipv6.SrcAddr \o ipv6.DstAddr

BytesTCPHDR(tcp) ==
    Mem16(tcp.SrcPort) \o Mem16(tcp.DstPort) \o Mem32(tcp.SeqNum) \o Mem32(tcp.AckNum)
    \o << tcp.Reserved1 + (16 * tcp.HdrLength),
          tcp.Fin + (2 * tcp.Syn) + (4 * tcp.Rst) + (8 * tcp.Psh) + (16 * tcp.Ack)
          + (32 * tcp.Urg) + (64 * tcp.Reserved2) >>
    \o Mem16(tcp.Window) \o Mem16(tcp.Checksum) \o Mem16(tcp.UrgPtr)

BytesICMPHDR(icmp) ==
    << icmp.Type, icmp.Code >> \o Mem16(icmp.Checksum) \o Mem32(icmp.Body)

\* The bytes of each template after its envelope, as DivertSend takes them:
\* len counts the envelope too.
PayloadTCPPACKET(p, len) ==
    SubSeq(BytesIPHDR(p.header.ip) \o BytesTCPHDR(p.tcp), 1, len - SizeofDIVERT_PACKET)
PayloadTCPV6PACKET(p, len) ==
    SubSeq(BytesIPV6HDR(p.header.ipv6) \o BytesTCPHDR(p.tcp), 1, len - SizeofDIVERT_PACKET)
PayloadICMPPACKET(p, len) ==
    SubSeq(BytesIPHDR(p.header.ip) \o BytesICMPHDR(p.icmp) \o p.data,
           1, len - SizeofDIVERT_PACKET)
PayloadICMPV6PACKET(p, len) ==
    SubSeq(BytesIPV6HDR(p.header.ipv6) \o BytesICMPHDR(p.icmpv6) \o p.data,
           1, len - SizeofDIVERT_PACKET)

\* The one's complement sum of the 16-bit big-endian words of b (an odd last
\* byte is padded with a zero byte), folded to 16 bits.
RECURSIVE WordSum(_, _, _)
WordSum(b, k, acc) ==
    IF k > Len(b) THEN acc
    ELSE WordSum(b, k + 2,
                 acc + (256 * b[k]) + (IF k + 1 <= Len(b) THEN b[k + 1] ELSE 0))

RECURSIVE Fold16(_)
Fold16(x) == IF x < 65536 THEN x ELSE Fold16((x % 65536) + (x \div 65536))

\* The checksum field (as the host reads it) that makes the bytes b, whose
\* checksum field is zero, sum to 0xFFFF.
InetChecksum(b) == htons(65535 - Fold16(WordSum(b, 1, 0)))

PseudoV4(ip, proto, n) ==
    Mem32(ip.SrcAddr) \o Mem32(ip.DstAddr) \o << 0, proto >> \o BE16(n)
PseudoV6(ipv6, next, n) ==
    ipv6.SrcAddr \o ipv6.DstAddr \o BE32(n) \o << 0, 0, 0, next >>

CalcChecksumsTCPPACKET(p, len) ==
    LET ip0 == [p.header.ip EXCEPT !.Checksum = 0]
        tcp0 == [p.tcp EXCEPT !.Checksum = 0]
        n == len - SizeofPACKET
    IN  [p EXCEPT
            !.header.ip.Checksum = InetChecksum(BytesIPHDR(ip0)),
            !.tcp.Checksum = InetChecksum(PseudoV4(ip0, IPPROTO_TCP, n)
                                          \o SubSeq(BytesTCPHDR(tcp0), 1, n))]

CalcChecksumsTCPV6PACKET(p, len) ==
    LET tcp0 == [p.tcp EXCEPT !.Checksum = 0]
        n == len - SizeofPACKETV6
    IN  [p EXCEPT
            !.tcp.Checksum = InetChecksum(PseudoV6(p.header.ipv6, IPPROTO_TCP, n)
                                          \o SubSeq(BytesTCPHDR(tcp0), 1, n))]

CalcChecksumsICMPPACKET(p, len) ==
    LET ip0 == [p.header.ip EXCEPT !.Checksum = 0]
        icmp0 == [p.icmp EXCEPT !.Checksum = 0]
        n == len - SizeofPACKET
    IN  [p EXCEPT
            !.header.ip.Checksum = InetChecksum(BytesIPHDR(ip0)),
            !.icmp.Checksum = InetChecksum(SubSeq(BytesICMPHDR(icmp0) \o p.data, 1, n))]

CalcChecksumsICMPV6PACKET(p, len) ==
    LET icmp0 == [p.icmpv6 EXCEPT !.Checksum = 0]
        n == len - SizeofPACKETV6
    IN  [p EXCEPT
            !.icmpv6.Checksum =
                InetChecksum(PseudoV6(p.header.ipv6, IPPROTO_ICMPV6, n)
                             \o SubSeq(BytesICMPHDR(icmp0) \o p.data, 1, n))]

(***************************************************************************)
(* The packets DivertRecv may deliver, each with what DivertHelperParse    *)
(* reports for it.                                                         *)
(***************************************************************************)
WireIPv4(h, proto, n, src, dst) ==
    << 64 + h, 0 >> \o BE16((4 * h) + n) \o << 18, 52, 64, 0, 128, proto, 0, 0 >>
    \o src \o dst \o [k \in 1..(4 * (h - 5)) |-> 1]

WireIPv6(next, n, src, dst) ==
    << 96, 0, 0, 0 >> \o BE16(n) \o << next, 64 >> \o src \o dst

\* other: the flags besides SYN and ACK (FIN 1, RST 4, PSH 8, URG 32).
WireTCP(sport, dport, seq, ack, syn, ackf, other) ==
    BE16(sport) \o BE16(dport) \o seq \o ack
    \o << 80, (2 * syn) + (16 * ackf) + other, 32, 0, 0, 0, 0, 0 >>

WireUDP(sport, dport, n) == BE16(sport) \o BE16(dport) \o BE16(8 + n) \o << 0, 0 >>

WirePayload(n, fill) == [k \in 1..n |-> fill]

AddrA == << 192, 168, 0, 1 >>
AddrB == << 10, 0, 0, 2 >>
Addr6(x) == << 32, 1, 13, 184, 0, 0, 0, 0, 0, 0, 0, 0, 0, 0, x, x + 1 >>
Ports == << 4660, 80 >>
PortA == Ports[1]
PortB == Ports[2]

NoHeaders ==
    [ip_header |-> NULL, ipv6_header |-> NULL, icmp_header |-> NULL,
     icmpv6_header |-> NULL, tcp_header |-> NULL, udp_header |-> NULL,
     payload_len |-> 0]

Env(IfIdx, SubIfIdx, Direction) ==
    [IfIdx |-> IfIdx, SubIfIdx |-> SubIfIdx, Direction |-> Direction]

TcpV4(env, h, src, dst, sport, dport, seq, ack, syn, ackf, other, n) ==
    [env |-> env,
     data |-> WireIPv4(h, IPPROTO_TCP, 20 + n, src, dst)
              \o WireTCP(sport, dport, seq, ack, syn, ackf, other) \o WirePayload(n, 170),
     cls |-> [NoHeaders EXCEPT !.ip_header = 0, !.tcp_header = 4 * h,
                               !.payload_len = n]]

TcpV6(env, src, dst, sport, dport, seq, ack, syn, ackf, other, n) ==
    [env |-> env,
     data |-> WireIPv6(IPPROTO_TCP, 20 + n, src, dst)
              \o WireTCP(sport, dport, seq, ack, syn, ackf, other) \o WirePayload(n, 187),
     cls |-> [NoHeaders EXCEPT !.ipv6_header = 0, !.tcp_header = SizeofDIVERT_IPV6HDR,
                               !.payload_len = n]]

UdpV4(env, h, src, dst, sport, dport, n) ==
    [env |-> env,
     data |-> WireIPv4(h, 17, 8 + n, src, dst)
              \o WireUDP(sport, dport, n) \o WirePayload(n, 204),
     cls |-> [NoHeaders EXCEPT !.ip_header = 0, !.udp_header = 4 * h,
                               !.payload_len = n]]

UdpV6(env, src, dst, sport, dport, n) ==
    [env |-> env,
     data |-> WireIPv6(17, 8 + n, src, dst)
              \o WireUDP(sport, dport, n) \o WirePayload(n, 221),
     cls |-> [NoHeaders EXCEPT !.ipv6_header = 0, !.udp_header = SizeofDIVERT_IPV6HDR,
                               !.payload_len = n]]

IcmpV4(env, src, dst) ==
    [env |-> env,
     data |-> WireIPv4(5, IPPROTO_ICMP, 8, src, dst) \o << 8, 0, 0, 0, 0, 1, 0, 1 >>,
     cls |-> [NoHeaders EXCEPT !.ip_header = 0, !.icmp_header = 20]]

IcmpV6(env, src, dst) ==
    [env |-> env,
     data |-> WireIPv6(IPPROTO_ICMPV6, 8, src, dst) \o << 128, 0, 0, 0, 0, 1, 0, 1 >>,
     cls |-> [NoHeaders EXCEPT !.ipv6_header = 0, !.icmpv6_header = 40]]

In == DIVERT_PACKET_DIRECTION_INBOUND
Out == DIVERT_PACKET_DIRECTION_OUTBOUND

TcpPackets ==
    { TcpV4(Env(7, 0, In), 5, AddrA, AddrB, PortA, PortB, BE32(1000), BE32(0), 1, 0, 0, 0),
      TcpV4(Env(11, 3, Out), 5, AddrB, AddrA, PortB, PortA, BE32(500), BE32(2000), 0, 1, 8, 40),
      TcpV4(Env(7, 3, In), 6, AddrA, AddrB, PortB, PortA, << 255, 255, 255, 255 >>, << 1, 2, 3, 4 >>, 1, 1, 41, 40),
      TcpV4(Env(11, 0, Out), 5, AddrB, AddrA, PortA, PortB, << 255, 255, 255, 240 >>, BE32(2000), 0, 0, 5, 40),
      TcpV6(Env(7, 0, Out), Addr6(1), Addr6(3), PortA, PortB, BE32(1000), BE32(0), 1, 0, 0, 0),
      TcpV6(Env(11, 3, In), Addr6(3), Addr6(1), PortB, PortA, BE32(500), BE32(2000), 0, 1, 8, 40),
      TcpV6(Env(7, 3, In), Addr6(1), Addr6(3), PortB, PortA, << 255, 255, 255, 255 >>, << 1, 2, 3, 4 >>, 1, 1, 41, 40) }

UdpPackets ==
    { UdpV4(Env(7, 0, In), 5, AddrA, AddrB, PortA, PortB, 0),
      UdpV4(Env(11, 3, Out), 6, AddrB, AddrA, PortB, PortA, 40),
      UdpV4(Env(7, 3, In), 15, AddrA, AddrB, PortB, PortA, 4),
      UdpV6(Env(7, 0, In), Addr6(1), Addr6(3), PortA, PortB, 0),
      UdpV6(Env(11, 3, Out), Addr6(3), Addr6(1), PortB, PortA, 40) }

DroppedPackets ==
    { IcmpV4(Env(7, 0, In), AddrA, AddrB),
      IcmpV6(Env(11, 3, Out), Addr6(1), Addr6(3)),
      \* An IPv4 packet of a protocol with no header the parser knows (GRE).
      [env |-> Env(7, 0, Out),
       data |-> WireIPv4(5, 47, 4, AddrA, AddrB) \o << 0, 0, 8, 0 >>,
       cls |-> [NoHeaders EXCEPT !.ip_header = 0]] }

\* What the parser may report outside the shape a well-formed packet has:
\* no network header at all (with and without a transport header), and
\* an IPv4 and an IPv6 header at once.
OddPackets ==
    { [env |-> Env(11, 0, In), data |-> << 0, 1, 8, 0 >>, cls |-> NoHeaders],
      [TcpV4(Env(11, 3, In), 5, AddrB, AddrA, PortA, PortB, BE32(77), BE32(99), 0, 1, 0, 0)
          EXCEPT !.cls.ip_header = NULL],
      [UdpV4(Env(7, 3, Out), 5, AddrB, AddrA, PortA, PortB, 0)
          EXCEPT !.cls.ip_header = NULL],
      [TcpV4(Env(11, 3, Out), 5, AddrA, AddrB, PortA, PortB, BE32(77), BE32(99), 0, 1, 0, 0)
          EXCEPT !.cls.ipv6_header = 0] }

\* One packet of each kind.
MixedPackets ==
    { TcpV4(Env(7, 0, In), 5, AddrA, AddrB, PortA, PortB, BE32(1000), BE32(0), 1, 0, 0, 0),
      TcpV6(Env(11, 3, In), Addr6(3), Addr6(1), PortB, PortA, BE32(500), BE32(2000), 0, 1, 8, 40),
      UdpV4(Env(11, 3, Out), 6, AddrB, AddrA, PortB, PortA, 40),
      UdpV6(Env(7, 0, In), Addr6(1), Addr6(3), PortA, PortB, 0),
      IcmpV4(Env(7, 0, In), AddrA, AddrB),
      [env |-> Env(11, 0, In), data |-> << 0, 1, 8, 0 >>, cls |-> NoHeaders] }

\* The filter decides which packets are diverted: the traffic of a run is
\* one of these sets.
Traffics == { TcpPackets, UdpPackets, DroppedPackets \cup OddPackets, MixedPackets }

(***************************************************************************)
(* The state of main().                                                    *)
(***************************************************************************)
VARIABLES
    pc,             \* where main() is: "concat", "open", "recv", a branch of the loop, "exit"
    argv,           \* argv[1 .. argc-1]
    i,              \* the argument being concatenated
    flen,
    filter,         \* filter[0 .. flen-1]
    exit_status,    \* the status exit() was called with, -1 while running
    fatal,          \* the diagnostic printed before exit(), "" while running
    handle,
    openCalls,      \* the filters DivertOpen was called with
    packet,         \* the receive buffer: the envelope and the data after it
    ppacket_len,
    hdr,            \* ip_header .. udp_header and payload_len, as last parsed
    reset, dnr, resetv6, dnrv6,
    calls,          \* the calls of the loop since (and with) the last DivertRecv
    traffic         \* the packets the filter diverts

vars == << pc, argv, i, flen, filter, exit_status, fatal, handle, openCalls, packet,
           ppacket_len, hdr, reset, dnr, resetv6, dnrv6, calls, traffic >>

startup == << argv, i, flen, filter, exit_status, fatal, handle, openCalls, traffic >>
templates == << reset, dnr, resetv6, dnrv6 >>
received == << packet, ppacket_len, hdr >>

argc == Len(argv) + 1

Space == << [c |-> " ", n |-> 1] >>

Init ==
    /\ pc = "concat"
    /\ argv \in SeqsUpTo(ArgChoices, MaxArgs)
    /\ i = 1
    /\ flen = 0
    /\ filter = << >>
    /\ exit_status = 0 - 1
    /\ fatal = ""
    /\ handle = INVALID_HANDLE_VALUE
    /\ openCalls = << >>
    /\ packet = [IfIdx |-> 0, SubIfIdx |-> 0, Direction |-> 0, data |-> << >>]
    /\ ppacket_len = 0
    /\ hdr = NoHeaders
    /\ reset = StackTCPPACKET
    /\ dnr = StackICMPPACKET
    /\ resetv6 = StackTCPV6PACKET
    /\ dnrv6 = StackICMPV6PACKET
    /\ calls = << >>
    /\ traffic \in Traffics

(***************************************************************************)
(* Start-up: lines 126-174.                                                *)
(***************************************************************************)
MutTooLong(f, slen) == f + slen + 1 > MAXBUF

\* The test of line 131.
TooLong(f, slen) == f + slen + 1 >= MAXBUF

\* One turn of the loop of lines 128-140 that appends argv[i] and a space.
ConcatArg ==
    /\ pc = "concat"
    /\ i < argc
    /\ ~TooLong(flen, strlen(argv[i]))
    /\ filter' = filter \o argv[i] \o Space
    /\ flen' = flen + strlen(argv[i]) + 1
    /\ i' = i + 1
    /\ UNCHANGED << pc, argv, exit_status, fatal, handle, openCalls, received, templates,
                    calls, traffic >>

\* Lines 131-135: the filter does not fit.
FilterTooLong ==
    /\ pc = "concat"
    /\ i < argc
    /\ TooLong(flen, strlen(argv[i]))
    /\ pc' = "exit"
    /\ exit_status' = EXIT_FAILURE
    /\ fatal' = "error: filter too long"
    /\ UNCHANGED << argv, i, flen, filter, handle, openCalls, received, templates, calls, traffic >>

\* Lines 141-160: the filter is terminated and the four packets are built.
InitPackets ==
    /\ pc = "concat"
    /\ i >= argc
    /\ reset' = InitReset
    /\ dnr' = InitDnr(dnr)
    /\ resetv6' = InitResetv6
    /\ dnrv6' = InitDnrv6(dnrv6)
    /\ pc' = "open"
    /\ UNCHANGED << startup, received, calls >>

\* Lines 163-164: DivertOpen returns a handle.
OpenOk ==
    /\ pc = "open"
    /\ openCalls' = Append(openCalls, filter)
    /\ handle' = 1
    /\ pc' = "recv"
    /\ UNCHANGED << argv, i, flen, filter, exit_status, fatal, received, templates, calls, traffic >>

MutOpenFail ==
    /\ pc = "open"
    /\ \E err \in { ERROR_INVALID_PARAMETER, ERROR_OTHER } :
          /\ openCalls' = Append(openCalls, filter)
          /\ handle' = INVALID_HANDLE_VALUE
          /\ fatal' = (IF err = ERROR_INVALID_PARAMETER
                       THEN "error: filter syntax error"
                       ELSE "error: failed to open Divert device")
          /\ exit_status' = (IF err = ERROR_INVALID_PARAMETER THEN EXIT_FAILURE ELSE 0 - 1)
          /\ pc' = (IF err = ERROR_INVALID_PARAMETER THEN "exit" ELSE "recv")
    /\ UNCHANGED << argv, i, flen, filter, received, templates, calls, traffic >>

\* Lines 163-174: DivertOpen fails, with a filter syntax error or otherwise.
OpenFail ==
    /\ pc = "open"
    /\ \E err \in { ERROR_INVALID_PARAMETER, ERROR_OTHER } :
          /\ openCalls' = Append(openCalls, filter)
          /\ handle' = INVALID_HANDLE_VALUE
          /\ fatal' = (IF err = ERROR_INVALID_PARAMETER
                       THEN "error: filter syntax error"
                       ELSE "error: failed to open Divert device")
          /\ exit_status' = EXIT_FAILURE
          /\ pc' = "exit"
    /\ UNCHANGED << argv, i, flen, filter, received, templates, calls, traffic >>

(***************************************************************************)
(* The main loop: lines 177-376.                                           *)
(***************************************************************************)
\* DivertRecv writes the envelope and the packet's bytes at the start of the
\* buffer; what the buffer held after them stays.
DivertRecv(buf, v) ==
    [IfIdx |-> v.env.IfIdx, SubIfIdx |-> v.env.SubIfIdx, Direction |-> v.env.Direction,
     data |-> v.data \o SubSeq(buf.data, Len(v.data) + 1, Len(buf.data))]

\* DivertHelperParse: the header pointers and the payload length of a packet.
DivertHelperParse(v) == v.cls

\* The conditions under which each of the four responses is made, in the
\* order the loop body reaches them (lines 236/267, 293, 321/326, 351).
Branches == << "tcp_ip", "tcp_ipv6", "udp_ip", "udp_ipv6" >>

MutTaken(b, h) ==
    CASE b = "tcp_ip" -> h.tcp_header # NULL /\ h.ip_header # NULL
      [] b = "tcp_ipv6" -> h.tcp_header # NULL /\ h.ipv6_header # NULL
      [] b = "udp_ip" -> h.udp_header # NULL
      [] b = "udp_ipv6" -> h.udp_header # NULL /\ h.ipv6_header # NULL

Taken(b, h) ==
    CASE b = "tcp_ip" -> h.tcp_header # NULL /\ h.ip_header # NULL
      [] b = "tcp_ipv6" -> h.tcp_header # NULL /\ h.ipv6_header # NULL
      [] b = "udp_ip" -> h.udp_header # NULL /\ h.ip_header # NULL
      [] b = "udp_ipv6" -> h.udp_header # NULL /\ h.ipv6_header # NULL

\* The first response from the k-th on that the loop body makes, or "recv"
\* when it makes no more and goes round.
RECURSIVE FirstFrom(_, _)
FirstFrom(k, h) ==
    IF k > Len(Branches) THEN "recv"
    ELSE IF Taken(Branches[k], h) THEN Branches[k]
    ELSE FirstFrom(k + 1, h)

\* Line 190: neither an IPv4 nor an IPv6 header.
NoNetworkHeader(h) == h.ip_header = NULL /\ h.ipv6_header = NULL

MutAfterParse(h) ==
    IF h.tcp_header # NULL THEN "tcp_ip"
    ELSE IF NoNetworkHeader(h) THEN "recv" ELSE FirstFrom(1, h)

\* Lines 190-193, and where the loop body goes when the packet is kept.
AfterParse(h) == IF NoNetworkHeader(h) THEN "recv" ELSE FirstFrom(1, h)

MutRecvFail ==
    /\ pc = "recv"
    /\ calls' = << [op |-> "DivertRecv", handle |-> handle, ok |-> FALSE],
                   [op |-> "fprintf", msg |-> "warning: failed to read packet"] >>
    /\ pc' = AfterParse(hdr)
    /\ UNCHANGED << startup, received, templates >>

\* Lines 180-184: DivertRecv fails.
RecvFail ==
    /\ pc = "recv"
    /\ calls' = << [op |-> "DivertRecv", handle |-> handle, ok |-> FALSE],
                   [op |-> "fprintf", msg |-> "warning: failed to read packet"] >>
    /\ UNCHANGED << pc, startup, received, templates >>

\* Lines 180-235: a packet is received and parsed.
Recv ==
    /\ pc = "recv"
    /\ \E v \in traffic :
          /\ packet' = DivertRecv(packet, v)
          /\ ppacket_len' = SizeofDIVERT_PACKET + Len(v.data)
          /\ hdr' = DivertHelperParse(v)
          /\ pc' = AfterParse(DivertHelperParse(v))
    /\ calls' = << [op |-> "DivertRecv", handle |-> handle, ok |-> TRUE],
                   [op |-> "DivertHelperParse"] >>
    /\ UNCHANGED << startup, templates >>

MutRstDirection(Direction) == Direction

MutRstSeqNum(data, tcp) == TcpAckNum(data, tcp)

MutRstAckNum(data, tcp, n) ==
    IF TcpSyn(data, tcp) # 0
    THEN Add32(TcpSeqNum(data, tcp), UINT32(1))
    ELSE Add32(TcpSeqNum(data, tcp), UINT32(n))

\* The fields of a TCP RST: lines 271 and 297, 276-277 and 304-305, 278-281
\* and 306-309.
RstDirection(Direction) == LNot(Direction)

RstSeqNum(data, tcp) == IF TcpAck(data, tcp) # 0 THEN TcpAckNum(data, tcp) ELSE UINT32(0)

RstAckNum(data, tcp, n) ==
    IF TcpSyn(data, tcp) # 0
    THEN htonl(Add32(ntohl(TcpSeqNum(data, tcp)), UINT32(1)))
    ELSE htonl(Add32(ntohl(TcpSeqNum(data, tcp)), UINT32(n)))

MutSynthReset(p, pkt, h) ==
    [p EXCEPT
        !.header.divert.IfIdx = pkt.IfIdx,
        !.header.divert.SubIfIdx = pkt.SubIfIdx,
        !.header.divert.Direction = RstDirection(pkt.Direction),
        !.header.ip.SrcAddr = IpSrcAddr(pkt.data, h.ip_header),
        !.header.ip.DstAddr = IpDstAddr(pkt.data, h.ip_header),
        !.tcp.SrcPort = TcpDstPort(pkt.data, h.tcp_header),
        !.tcp.DstPort = TcpSrcPort(pkt.data, h.tcp_header),
        !.tcp.SeqNum = RstSeqNum(pkt.data, h.tcp_header),
        !.tcp.AckNum = RstAckNum(pkt.data, h.tcp_header, h.payload_len)]

\* Lines 269-281.
SynthReset(p, pkt, h) ==
    [p EXCEPT
        !.header.divert.IfIdx = pkt.IfIdx,
        !.header.divert.SubIfIdx = pkt.SubIfIdx,
        !.header.divert.Direction = RstDirection(pkt.Direction),
        !.header.ip.SrcAddr = IpDstAddr(pkt.data, h.ip_header),
        !.header.ip.DstAddr = IpSrcAddr(pkt.data, h.ip_header),
        !.tcp.SrcPort = TcpDstPort(pkt.data, h.tcp_header),
        !.tcp.DstPort = TcpSrcPort(pkt.data, h.tcp_header),
        !.tcp.SeqNum = RstSeqNum(pkt.data, h.tcp_header),
        !.tcp.AckNum = RstAckNum(pkt.data, h.tcp_header, h.payload_len)]

MutSynthResetv6(p, pkt, h) ==
    [p EXCEPT
        !.header.divert.IfIdx = pkt.IfIdx,
        !.header.divert.SubIfIdx = pkt.SubIfIdx,
        !.header.divert.Direction = RstDirection(pkt.Direction),
        !.header.ipv6.SrcAddr = Ipv6DstAddr(pkt.data, h.ipv6_header),
        !.header.ipv6.DstAddr = Ipv6SrcAddr(pkt.data, h.ipv6_header),
        !.tcp.SrcPort = TcpDstPort(pkt.data, h.tcp_header),
        !.tcp.DstPort = TcpSrcPort(pkt.data, h.tcp_header),
        !.tcp.Ack = TcpAck(pkt.data, h.tcp_header),
        !.tcp.SeqNum = RstSeqNum(pkt.data, h.tcp_header),
        !.tcp.AckNum = RstAckNum(pkt.data, h.tcp_header, h.payload_len)]

\* Lines 295-309.
SynthResetv6(p, pkt, h) ==
    [p EXCEPT
        !.header.divert.IfIdx = pkt.IfIdx,
        !.header.divert.SubIfIdx = pkt.SubIfIdx,
        !.header.divert.Direction = RstDirection(pkt.Direction),
        !.header.ipv6.SrcAddr = Ipv6DstAddr(pkt.data, h.ipv6_header),
        !.header.ipv6.DstAddr = Ipv6SrcAddr(pkt.data, h.ipv6_header),
        !.tcp.SrcPort = TcpDstPort(pkt.data, h.tcp_header),
        !.tcp.DstPort = TcpSrcPort(pkt.data, h.tcp_header),
        !.tcp.SeqNum = RstSeqNum(pkt.data, h.tcp_header),
        !.tcp.AckNum = RstAckNum(pkt.data, h.tcp_header, h.payload_len)]

MutDnrEmbedLength(HdrLength) == SizeofDIVERT_IPHDR + 8

\* Line 331 and lines 353-354: the number of bytes copied into data[].
DnrEmbedLength(HdrLength) == (HdrLength * SizeofUINT32) + 8
Dnrv6EmbedLength == SizeofDIVERT_IPV6HDR + SizeofDIVERT_TCPHDR

MutDnrDirection == LNot(packet.Direction)

\* Lines 336-337 and 359-360.
DnrDirection == DIVERT_PACKET_DIRECTION_OUTBOUND

\* Lines 338-339.
DnrLength(icmp_length) == htons(icmp_length - SizeofDIVERT_PACKET)

\* Line 333 and line 356: the length of the whole response.
DnrSendLength(embedded) == embedded + SizeofICMPPACKET
Dnrv6SendLength(embedded) == embedded + SizeofICMPV6PACKET

\* Lines 331-341.
SynthDnr(p, pkt, h) ==
    LET embedded == DnrEmbedLength(IpHdrLength(pkt.data, h.ip_header))
        icmp_length == DnrSendLength(embedded)
    IN  [p EXCEPT
            !.data = Memcpy(p.data, Bytes(pkt.data, h.ip_header, embedded), 0, embedded),
            !.header.divert.IfIdx = pkt.IfIdx,
            !.header.divert.SubIfIdx = pkt.SubIfIdx,
            !.header.divert.Direction = DnrDirection,
            !.header.ip.Length = DnrLength(icmp_length),
            !.header.ip.SrcAddr = IpDstAddr(pkt.data, h.ip_header),
            !.header.ip.DstAddr = IpSrcAddr(pkt.data, h.ip_header)]

MutSynthDnrv6(p, pkt, h) ==
    LET embedded == Dnrv6EmbedLength
    IN  [p EXCEPT
            !.data = Memcpy(p.data, Bytes(pkt.data, h.ipv6_header, embedded), 0, embedded),
            !.header.divert.IfIdx = pkt.IfIdx,
            !.header.divert.Direction = DnrDirection,
            !.header.ipv6.SrcAddr = Ipv6DstAddr(pkt.data, h.ipv6_header),
            !.header.ipv6.DstAddr = Ipv6SrcAddr(pkt.data, h.ipv6_header)]

\* Lines 353-364.
SynthDnrv6(p, pkt, h) ==
    LET embedded == Dnrv6EmbedLength
    IN  [p EXCEPT
            !.data = Memcpy(p.data, Bytes(pkt.data, h.ipv6_header, embedded), 0, embedded),
            !.header.divert.IfIdx = pkt.IfIdx,
            !.header.divert.SubIfIdx = pkt.SubIfIdx,
            !.header.divert.Direction = DnrDirection,
            !.header.ipv6.SrcAddr = Ipv6DstAddr(pkt.data, h.ipv6_header),
            !.header.ipv6.DstAddr = Ipv6SrcAddr(pkt.data, h.ipv6_header)]

\* What a response adds to the calls of the iteration: the checksums are
\* finalized in the buffer, the buffer is sent, and a failure is reported.
Respond(buf, p, len, ok, msg) ==
    << [op |-> "DivertHelperCalcChecksums", buf |-> buf, len |-> len, pkt |-> p],
       [op |-> "DivertSend", handle |-> handle, buf |-> buf, len |-> len, pkt |-> p,
        ok |-> ok] >>
    \o (IF ok THEN << >> ELSE << [op |-> "fprintf", msg |-> msg] >>)

\* Where the loop body goes after the response b.
After(b) ==
    FirstFrom(1 + CHOOSE k \in 1..Len(Branches) : Branches[k] = b, hdr)

MutSendReset ==
    /\ pc = "tcp_ip"
    /\ \E ok \in BOOLEAN :
          LET p == SynthReset(CalcChecksumsTCPPACKET(reset, SizeofTCPPACKET), packet, hdr)
          IN  /\ reset' = p
              /\ calls' = calls \o Respond("reset", p, SizeofTCPPACKET, ok,
                                           "warning: failed to send TCP reset")
    /\ pc' = After("tcp_ip")
    /\ UNCHANGED << startup, received, dnr, resetv6, dnrv6 >>

\* Lines 267-291.
SendReset ==
    /\ pc = "tcp_ip"
    /\ \E ok \in BOOLEAN :
          LET p == CalcChecksumsTCPPACKET(SynthReset(reset, packet, hdr), SizeofTCPPACKET)
          IN  /\ reset' = p
              /\ calls' = calls \o Respond("reset", p, SizeofTCPPACKET, ok,
                                           "warning: failed to send TCP reset")
    /\ pc' = After("tcp_ip")
    /\ UNCHANGED << startup, received, dnr, resetv6, dnrv6 >>

\* Lines 293-319.
SendResetv6 ==
    /\ pc = "tcp_ipv6"
    /\ \E ok \in BOOLEAN :
          LET p == CalcChecksumsTCPV6PACKET(SynthResetv6(resetv6, packet, hdr),
                                            SizeofTCPV6PACKET)
          IN  /\ resetv6' = p
              /\ calls' = calls \o Respond("resetv6", p, SizeofTCPV6PACKET, ok,
                                           "warning: failed to send TCP (IPV6) reset")
    /\ pc' = After("tcp_ipv6")
    /\ UNCHANGED << startup, received, reset, dnr, dnrv6 >>

MutSendDnr ==
    /\ pc = "udp_ip"
    /\ \E ok \in BOOLEAN :
          LET icmp_length ==
                  DnrSendLength(DnrEmbedLength(IpHdrLength(packet.data, hdr.ip_header)))
              p == CalcChecksumsICMPPACKET(SynthDnr(dnr, packet, hdr), icmp_length)
          IN  /\ dnr' = p
              /\ calls' = calls \o Respond("dnr", p, icmp_length, ok,
                                           "warning: failed to send ICMP message")
              /\ pc' = (IF ok THEN After("udp_ip") ELSE "exit")
              /\ exit_status' = (IF ok THEN exit_status ELSE EXIT_FAILURE)
    /\ UNCHANGED << argv, i, flen, filter, fatal, handle, openCalls, traffic,
                    received, reset, resetv6, dnrv6 >>

\* Lines 326-349.
SendDnr ==
    /\ pc = "udp_ip"
    /\ \E ok \in BOOLEAN :
          LET icmp_length ==
                  DnrSendLength(DnrEmbedLength(IpHdrLength(packet.data, hdr.ip_header)))
              p == CalcChecksumsICMPPACKET(SynthDnr(dnr, packet, hdr), icmp_length)
          IN  /\ dnr' = p
              /\ calls' = calls \o Respond("dnr", p, icmp_length, ok,
                                           "warning: failed to send ICMP message")
    /\ pc' = After("udp_ip")
    /\ UNCHANGED << startup, received, reset, resetv6, dnrv6 >>

\* Lines 351-373.
SendDnrv6 ==
    /\ pc = "udp_ipv6"
    /\ \E ok \in BOOLEAN :
          LET icmpv6_length == Dnrv6SendLength(Dnrv6EmbedLength)
              p == CalcChecksumsICMPV6PACKET(SynthDnrv6(dnrv6, packet, hdr), icmpv6_length)
          IN  /\ dnrv6' = p
              /\ calls' = calls \o Respond("dnrv6", p, icmpv6_length, ok,
                                           "warning: failed to send ICMPv6 message")
    /\ pc' = After("udp_ipv6")
    /\ UNCHANGED << startup, received, reset, dnr, resetv6 >>

Next ==
    \/ ConcatArg
    \/ FilterTooLong
    \/ InitPackets
    \/ OpenOk
    \/ OpenFail
    \/ RecvFail
    \/ Recv
    \/ SendReset
    \/ SendResetv6
    \/ SendDnr
    \/ SendDnrv6

Spec == Init /\ [][Next]_vars

\* Where main() is in the loop body: at one of the four responses.
Dispatching == { Branches[k] : k \in DOMAIN Branches }

\* main() goes on from the response it is at (every one of SendReset,
\* SendResetv6, SendDnr and SendDnrv6 is such a step).
LeaveResponse == pc \in Dispatching /\ pc' = After(pc)

\* The process keeps running: DivertHelperCalcChecksums and DivertSend
\* return, so main() does not stay for ever at a response the loop body has
\* reached.  DivertRecv blocks until a packet is diverted: nothing is
\* assumed of it.
FairSpec == Spec /\ WF_pc(LeaveResponse)

(***************************************************************************)
(* What the properties speak of: the intercepted packet as it is on the    *)
(* wire, and the bytes of each response handed to DivertSend.              *)
(***************************************************************************)
IsSend(c) == c.op = "DivertSend"
IsChecksum(c) == c.op = "DivertHelperCalcChecksums"
Sends == SelectSeq(calls, IsSend)

\* The current iteration received a packet.
Received == calls # << >> /\ calls[1].op = "DivertRecv" /\ calls[1].ok

IsRst(c) == c.buf \in { "reset", "resetv6" }
IsUnreachable(c) == c.buf \in { "dnr", "dnrv6" }
IsV4(c) == c.buf \in { "reset", "dnr" }

\* The bytes of a response after its envelope, and its envelope.
SentBytes(c) ==
    CASE c.buf = "reset" -> PayloadTCPPACKET(c.pkt, c.len)
      [] c.buf = "resetv6" -> PayloadTCPV6PACKET(c.pkt, c.len)
      [] c.buf = "dnr" -> PayloadICMPPACKET(c.pkt, c.len)
      [] c.buf = "dnrv6" -> PayloadICMPV6PACKET(c.pkt, c.len)
SentEnvelope(c) == c.pkt.header.divert

\* The header after the network header of a response.
SentNetLen(c) == IF IsV4(c) THEN 20 ELSE 40
SentUpper(c) == SubSeq(SentBytes(c), SentNetLen(c) + 1, Len(SentBytes(c)))
SentSrcAddr(c) ==
    IF IsV4(c) THEN SubSeq(SentBytes(c), 13, 16) ELSE SubSeq(SentBytes(c), 9, 24)
SentDstAddr(c) ==
    IF IsV4(c) THEN SubSeq(SentBytes(c), 17, 20) ELSE SubSeq(SentBytes(c), 25, 40)

\* The intercepted packet, read off the wire at the headers the parser found.
RxNet(c) == IF IsV4(c) THEN hdr.ip_header ELSE hdr.ipv6_header
RxSrcAddr(c) ==
    IF IsV4(c) THEN SubSeq(packet.data, RxNet(c) + 13, RxNet(c) + 16)
    ELSE SubSeq(packet.data, RxNet(c) + 9, RxNet(c) + 24)
RxDstAddr(c) ==
    IF IsV4(c) THEN SubSeq(packet.data, RxNet(c) + 17, RxNet(c) + 20)
    ELSE SubSeq(packet.data, RxNet(c) + 25, RxNet(c) + 40)
RxTcp == SubSeq(packet.data, hdr.tcp_header + 1, hdr.tcp_header + 20)
RxSynFlag == (RxTcp[14] \div 2) % 2 = 1
RxAckFlag == (RxTcp[14] \div 16) % 2 = 1

\* A 32-bit number on the wire, as its two 16-bit halves, and x + n modulo
\* 2^32 for n below 2^16.
WireNum(b) == [hi |-> (256 * b[1]) + b[2], lo |-> (256 * b[3]) + b[4]]
PlusMod32(x, n) ==
    [hi |-> (x.hi + ((x.lo + n) \div 65536)) % 65536, lo |-> (x.lo + n) % 65536]

RxSeqNum == WireNum(SubSeq(RxTcp, 5, 8))
RxAckNum == WireNum(SubSeq(RxTcp, 9, 12))
SentSeqNum(c) == WireNum(SubSeq(SentUpper(c), 5, 8))
SentAckNum(c) == WireNum(SubSeq(SentUpper(c), 9, 12))
SentSrcPort(c) == SubSeq(SentUpper(c), 1, 2)
SentDstPort(c) == SubSeq(SentUpper(c), 3, 4)

\* C1: the sequence number of every RST sent is the acknowledgment number of
\* the intercepted packet when that packet's ACK flag is set, and 0 when it
\* is clear, whatever the template held from earlier packets.
C1_RstSeqNum ==
    \A k \in DOMAIN calls :
        (IsSend(calls[k]) /\ IsRst(calls[k])) =>
            SentSeqNum(calls[k]) = (IF RxAckFlag THEN RxAckNum ELSE [hi |-> 0, lo |-> 0])

\* A RST was sent for a packet with ACK set and acknowledgment number 2000.
C1_Witness ==
    \E k \in DOMAIN calls :
        /\ IsSend(calls[k]) /\ IsRst(calls[k])
        /\ RxAckFlag /\ RxAckNum = [hi |-> 0, lo |-> 2000]
        /\ SentSeqNum(calls[k]) = [hi |-> 0, lo |-> 2000]

\* C2: the acknowledgment number of every RST sent is the intercepted
\* sequence number plus 1 when the intercepted SYN flag is set, and plus the
\* payload length when it is clear, modulo 2^32.
C2_RstAckNum ==
    \A k \in DOMAIN calls :
        (IsSend(calls[k]) /\ IsRst(calls[k])) =>
            SentAckNum(calls[k]) =
                (IF RxSynFlag THEN PlusMod32(RxSeqNum, 1)
                 ELSE PlusMod32(RxSeqNum, hdr.payload_len))

\* A RST was sent for a SYN packet that carries a payload and whose sequence
\* number is 2^32 - 1: its acknowledgment number wrapped to 0.
C2_Witness ==
    \E k \in DOMAIN calls :
        /\ IsSend(calls[k]) /\ IsRst(calls[k])
        /\ RxSynFlag /\ hdr.payload_len > 0
        /\ RxSeqNum = [hi |-> 65535, lo |-> 65535]
        /\ SentAckNum(calls[k]) = [hi |-> 0, lo |-> 0]

\* C3: every response sent has the intercepted destination address as its
\* source address and the intercepted source address as its destination
\* address; a RST has the ports swapped likewise.
C3_Swapped ==
    \A k \in DOMAIN calls :
        IsSend(calls[k]) =>
            /\ SentSrcAddr(calls[k]) = RxDstAddr(calls[k])
            /\ SentDstAddr(calls[k]) = RxSrcAddr(calls[k])
            /\ IsRst(calls[k]) =>
                  /\ SentSrcPort(calls[k]) = SubSeq(RxTcp, 3, 4)
                  /\ SentDstPort(calls[k]) = SubSeq(RxTcp, 1, 2)

\* A RST over IPv4 was sent for a packet whose two addresses and whose two
\* ports differ.
C3_Witness ==
    \E k \in DOMAIN calls :
        /\ IsSend(calls[k]) /\ calls[k].buf = "reset"
        /\ RxSrcAddr(calls[k]) # RxDstAddr(calls[k])
        /\ SubSeq(RxTcp, 1, 2) # SubSeq(RxTcp, 3, 4)
        /\ SentSrcAddr(calls[k]) = RxDstAddr(calls[k])

\* C4: the direction of every RST sent is the complement of the direction of
\* the intercepted packet.
C4_RstDirection ==
    \A k \in DOMAIN calls :
        (IsSend(calls[k]) /\ IsRst(calls[k])) =>
            /\ packet.Direction = DIVERT_PACKET_DIRECTION_INBOUND =>
                  SentEnvelope(calls[k]).Direction = DIVERT_PACKET_DIRECTION_OUTBOUND
            /\ packet.Direction = DIVERT_PACKET_DIRECTION_OUTBOUND =>
                  SentEnvelope(calls[k]).Direction = DIVERT_PACKET_DIRECTION_INBOUND

\* A RST over IPv6 was sent inbound for an outbound packet.
C4_Witness ==
    \E k \in DOMAIN calls :
        /\ IsSend(calls[k]) /\ calls[k].buf = "resetv6"
        /\ packet.Direction = DIVERT_PACKET_DIRECTION_OUTBOUND
        /\ SentEnvelope(calls[k]).Direction = DIVERT_PACKET_DIRECTION_INBOUND

\* C5: the direction of every destination-unreachable response sent is
\* outbound.
C5_UnreachableOutbound ==
    \A k \in DOMAIN calls :
        (IsSend(calls[k]) /\ IsUnreachable(calls[k])) =>
            SentEnvelope(calls[k]).Direction = DIVERT_PACKET_DIRECTION_OUTBOUND

\* An ICMP destination-unreachable was sent outbound for an outbound packet.
C5_Witness ==
    \E k \in DOMAIN calls :
        /\ IsSend(calls[k]) /\ calls[k].buf = "dnr"
        /\ packet.Direction = DIVERT_PACKET_DIRECTION_OUTBOUND
        /\ SentEnvelope(calls[k]).Direction = DIVERT_PACKET_DIRECTION_OUTBOUND

\* The ClassifiedHeaders invariant: at most one network header, at most one
\* of the four other headers, and that one consistent with the network
\* header (none without a network header, ICMP with IPv4, ICMPv6 with IPv6).
Present(x) == x # NULL
ClassifiedHeadersInv(h) ==
    /\ ~(Present(h.ip_header) /\ Present(h.ipv6_header))
    /\ Cardinality({ n \in { "icmp_header", "icmpv6_header", "tcp_header", "udp_header" } :
                        Present(h[n]) }) <= 1
    /\ (Present(h.icmp_header) \/ Present(h.icmpv6_header) \/ Present(h.tcp_header)
        \/ Present(h.udp_header)) => (Present(h.ip_header) \/ Present(h.ipv6_header))
    /\ Present(h.icmp_header) => Present(h.ip_header)
    /\ Present(h.icmpv6_header) => Present(h.ipv6_header)

\* The response c is a TCP RST, or a destination-unreachable (port
\* unreachable) message, of the address family of the intercepted packet.
SentVersion(c) == SentBytes(c)[1] \div 16
SentProtocol(c) == IF IsV4(c) THEN SentBytes(c)[10] ELSE SentBytes(c)[7]
RxVersion == IF Present(hdr.ip_header) THEN 4 ELSE 6
IsSentRst(c) ==
    /\ SentVersion(c) = RxVersion
    /\ SentProtocol(c) = 6
    /\ (SentUpper(c)[14] \div 4) % 2 = 1
IsSentUnreachable(c) ==
    /\ SentVersion(c) = RxVersion
    /\ \/ RxVersion = 4 /\ SentProtocol(c) = 1
          /\ SentUpper(c)[1] = 3 /\ SentUpper(c)[2] = 3
       \/ RxVersion = 6 /\ SentProtocol(c) = 58
          /\ SentUpper(c)[1] = 1 /\ SentUpper(c)[2] = 4

\* C6: for a packet whose headers satisfy the ClassifiedHeaders invariant,
\* the loop body never makes more than one DivertSend, and when it is back
\* at DivertRecv it has made exactly one, of a TCP RST, for a TCP packet,
\* exactly one, of a destination-unreachable message, for a UDP packet, and
\* none for any other packet.
C6_SendsByClass ==
    (Received /\ ClassifiedHeadersInv(hdr)) =>
        /\ Len(Sends) <= 1
        /\ pc = "recv" =>
              IF Present(hdr.tcp_header)
              THEN Len(Sends) = 1 /\ IsRst(Sends[1]) /\ IsSentRst(Sends[1])
              ELSE IF Present(hdr.udp_header)
              THEN Len(Sends) = 1 /\ IsUnreachable(Sends[1]) /\ IsSentUnreachable(Sends[1])
              ELSE Sends = << >>

\* The loop is back at DivertRecv after an ICMPv6 packet, with nothing sent.
C6_Witness ==
    /\ pc = "recv" /\ Received /\ ClassifiedHeadersInv(hdr)
    /\ Present(hdr.icmpv6_header)
    /\ Sends = << >>

\* C7: in every response sent the IPv4 total length is the number of bytes
\* sent after the envelope, and the IPv6 payload length is that number less
\* the 40 bytes of the IPv6 header.
C7_LengthFieldMatchesSent ==
    \A k \in DOMAIN calls :
        IsSend(calls[k]) =>
            LET sent == SentBytes(calls[k])
                n == calls[k].len - SizeofDIVERT_PACKET
            IN  IF IsV4(calls[k])
                THEN (256 * sent[3]) + sent[4] = n
                ELSE (256 * sent[5]) + sent[6] = n - 40

\* C8: every ICMP response sent for a UDP/IPv4 packet of header length h
\* words embeds 4*h + 8 bytes, the bytes of the intercepted packet from its
\* IPv4 header on; its length, which is also the length the checksums were
\* finalized with, is that plus the envelope, the IPv4 header and the ICMP
\* header; its type and code are 3 and 3.
C8_Embedded ==
    \A k \in DOMAIN calls :
        (IsSend(calls[k]) /\ calls[k].buf = "dnr") =>
            LET h == packet.data[hdr.ip_header + 1] % 16
                n == (4 * h) + 8
                sent == SentBytes(calls[k])
            IN  /\ SubSeq(sent, 29, Len(sent))
                      = SubSeq(packet.data, hdr.ip_header + 1, hdr.ip_header + n)
                /\ Len(sent) = 28 + n
                /\ calls[k].len = n + SizeofDIVERT_PACKET + SizeofDIVERT_IPHDR
                                    + SizeofDIVERT_ICMPHDR
                /\ k > 1 /\ IsChecksum(calls[k - 1])
                /\ calls[k - 1].buf = "dnr" /\ calls[k - 1].len = calls[k].len
                /\ sent[21] = 3 /\ sent[22] = 3

\* An ICMP response was sent for a UDP/IPv4 packet with a 20-byte header: it
\* embeds 28 bytes.
C8_Witness ==
    \E k \in DOMAIN calls :
        /\ IsSend(calls[k]) /\ calls[k].buf = "dnr"
        /\ packet.data[hdr.ip_header + 1] % 16 = 5
        /\ Len(SentBytes(calls[k])) = 28 + 28

\* C9: a step that receives a packet with neither an IPv4 nor an IPv6
\* header leaves the four templates as they were, finalizes no checksum,
\* sends nothing and is followed by DivertRecv.
C9_NoNetworkHeaderSkipped ==
    [][(pc = "recv" /\ calls'[1].ok /\ NoNetworkHeader(hdr')) =>
          /\ pc' = "recv"
          /\ UNCHANGED templates
          /\ \A k \in DOMAIN calls' : ~IsSend(calls'[k]) /\ ~IsChecksum(calls'[k])]_vars

\* A packet with a TCP header and no network header was received, and the
\* loop is at DivertRecv again.
C9_Witness ==
    /\ pc = "recv" /\ Received
    /\ NoNetworkHeader(hdr) /\ Present(hdr.tcp_header)
    /\ Len(calls) = 2

\* The filter fits: each argument, appended with its space after the ones
\* before it, stays below the 2048 bytes of the buffer.
RECURSIVE FilterFits(_, _)
FilterFits(args, used) ==
    \/ args = << >>
    \/ /\ used + strlen(args[1]) + 1 < 2048
       /\ FilterFits(Tail(args), used + strlen(args[1]) + 1)

\* The arguments in order, each followed by one space.
RECURSIVE Concatenated(_)
Concatenated(args) ==
    IF args = << >> THEN << >> ELSE args[1] \o Space \o Concatenated(Tail(args))

\* C10: when the filter does not fit, DivertOpen is never called, the loop
\* is never entered and the process exits with a non-zero status; when it
\* fits, DivertOpen is called exactly once, with the concatenated arguments.
C10_FilterTooLong ==
    /\ Len(openCalls) <= 1
    /\ ~FilterFits(argv, 0) =>
          /\ openCalls = << >>
          /\ calls = << >>
          /\ pc \in { "concat", "exit" }
          /\ pc = "exit" => exit_status > 0
    /\ (FilterFits(argv, 0) /\ pc \notin { "concat", "open" }) =>
          /\ Len(openCalls) = 1
          /\ openCalls[1] = Concatenated(argv)

\* The process has exited on its second argument, with which the filter
\* would be exactly 2048 bytes long.
C10_Witness ==
    /\ pc = "exit" /\ exit_status = EXIT_FAILURE
    /\ fatal = "error: filter too long"
    /\ i = 2 /\ flen + strlen(argv[i]) + 1 = 2048
    /\ openCalls = << >>

\* The calls of the loop that are made on a handle.
OnHandle(c) == c.op \in { "DivertRecv", "DivertSend" }
OpenFailures == { "error: filter syntax error", "error: failed to open Divert device" }

\* C11: when DivertOpen fails, with a filter syntax error or with any other
\* error, the process exits with a non-zero status and the loop makes no
\* call at all; whenever the loop has made a call, DivertOpen has succeeded
\* and every DivertRecv and DivertSend is on the handle it returned.
C11_OpenFailureExits ==
    /\ fatal \in OpenFailures =>
          /\ pc = "exit" /\ exit_status > 0
          /\ calls = << >>
          /\ handle = INVALID_HANDLE_VALUE
    /\ (Len(openCalls) = 1 /\ handle = INVALID_HANDLE_VALUE) =>
          (pc = "exit" /\ fatal \in OpenFailures)
    /\ calls # << >> =>
          /\ Len(openCalls) = 1 /\ fatal = ""
          /\ handle # INVALID_HANDLE_VALUE
          /\ \A k \in DOMAIN calls : OnHandle(calls[k]) => calls[k].handle = handle

\* DivertOpen has failed for a reason other than the filter's syntax, and
\* the process has exited with status 1 without a call of the loop.
C11_Witness ==
    /\ pc = "exit" /\ exit_status = EXIT_FAILURE
    /\ fatal = "error: failed to open Divert device"
    /\ Len(openCalls) = 1 /\ handle = INVALID_HANDLE_VALUE
    /\ calls = << >>

\* Where main() is once the loop is entered: at DivertRecv, or in the loop
\* body at one of the four responses.
LoopStates == { "recv" } \cup Dispatching

\* The buffers of the responses the loop body owes a packet with the
\* headers h, in the order it makes them.
Owed(h) ==
    (IF Present(h.tcp_header) /\ Present(h.ip_header) THEN << "reset" >> ELSE << >>)
    \o (IF Present(h.tcp_header) /\ Present(h.ipv6_header) THEN << "resetv6" >> ELSE << >>)
    \o (IF Present(h.udp_header) /\ Present(h.ip_header) THEN << "dnr" >> ELSE << >>)
    \o (IF Present(h.udp_header) /\ Present(h.ipv6_header) THEN << "dnrv6" >> ELSE << >>)

\* C12: once in the loop main() stays in the loop; at DivertRecv it can
\* always call DivertRecv; from every response of the loop body it gets back
\* to DivertRecv;
\* and when it is back there after a packet, every response owed to that
\* packet has been handed to DivertSend, in order, whether the sends before
\* it succeeded or failed.
C12_LoopProgress ==
    /\ [][(pc \in LoopStates) => (pc' \in LoopStates)]_vars
    /\ [](pc = "recv" => ENABLED (Recv \/ RecvFail))
    /\ [](pc \in Dispatching => <>(pc = "recv"))
    /\ []((pc = "recv" /\ Received) =>
            [k \in DOMAIN Sends |-> Sends[k].buf] = Owed(hdr))

\* The loop is back at DivertRecv after a packet for which it made two
\* responses, the first of which DivertSend failed to send.
C12_Witness ==
    /\ pc = "recv" /\ Received
    /\ Len(Sends) = 2
    /\ ~Sends[1].ok

\* C13: a step in which DivertRecv fails leaves the four templates and the
\* handle as they were, is followed by DivertRecv again, and makes no call
\* to DivertHelperParse, DivertHelperCalcChecksums or DivertSend; this holds
\* wherever the loop is at DivertRecv, so also after a failure.
C13_RecvFailureRetries ==
    [][(pc = "recv" /\ calls' # << >> /\ ~calls'[1].ok) =>
          /\ pc' = "recv"
          /\ UNCHANGED templates
          /\ UNCHANGED handle
          /\ calls'[1].handle = handle
          /\ \A k \in DOMAIN calls' :
                calls'[k].op \notin { "DivertHelperParse", "DivertHelperCalcChecksums",
                                      "DivertSend" }]_vars

\* DivertRecv has failed after an iteration that answered a TCP packet, whose
\* header pointers the variables still hold, and the loop is at DivertRecv.
C13_Witness ==
    /\ pc = "recv"
    /\ calls # << >> /\ ~calls[1].ok
    /\ Present(hdr.tcp_header) /\ Present(hdr.ip_header)
    /\ reset # InitReset

\* C14: the interface index and the sub-interface index of the envelope of
\* every response handed to DivertSend, on each of the four paths, are those
\* of the packet DivertRecv delivered in this iteration.
C14_InterfaceCopied ==
    \A k \in DOMAIN calls :
        IsSend(calls[k]) =>
            /\ calls[k].buf \in { "reset", "resetv6", "dnr", "dnrv6" }
            /\ SentEnvelope(calls[k]).IfIdx = packet.IfIdx
            /\ SentEnvelope(calls[k]).SubIfIdx = packet.SubIfIdx

\* An ICMPv6 response was sent on interface 11, sub-interface 3, for a packet
\* of that interface.
C14_Witness ==
    \E k \in DOMAIN calls :
        /\ IsSend(calls[k]) /\ calls[k].buf = "dnrv6"
        /\ packet.IfIdx = 11 /\ packet.SubIfIdx = 3
        /\ SentEnvelope(calls[k]).IfIdx = 11
        /\ SentEnvelope(calls[k]).SubIfIdx = 3

\* The four templates have been built.
Built == pc = "open" \/ Len(openCalls) = 1

\* A template less the fields a response writes: the envelope, the
\* addresses, the ports, the sequence and acknowledgment numbers, the
\* embedded data, the lengths and the checksums.
FixedOfV4(n) == [n EXCEPT !.SrcAddr = UINT32(0), !.DstAddr = UINT32(0),
                          !.Length = 0, !.Checksum = 0]
FixedOfV6(n) == [n EXCEPT !.SrcAddr = Zeros(16), !.DstAddr = Zeros(16), !.Length = 0]
FixedOfTcp(t) == [t EXCEPT !.SrcPort = 0, !.DstPort = 0, !.SeqNum = UINT32(0),
                           !.AckNum = UINT32(0), !.Checksum = 0]
FixedOfIcmp(c) == [c EXCEPT !.Checksum = 0]

\* The fields of an IPv4 and of an IPv6 header, of a TCP and of an ICMP(v6)
\* header that no response changes.
FixedV4(n, proto) ==
    /\ n.Version = 4 /\ n.HdrLength = 5
    /\ Mem16(n.Id) = << 222, 173 >>
    /\ n.TTL = 64
    /\ n.Protocol = proto
FixedV6(n, next) == n.Version = 6 /\ n.HopLimit = 64 /\ n.NextHdr = next
FixedRst(t) ==
    /\ t.HdrLength = 5
    /\ t.Rst = 1 /\ t.Ack = 1
    /\ t.Fin = 0 /\ t.Syn = 0 /\ t.Psh = 0 /\ t.Urg = 0
    /\ t.Window = 0
FixedUnreachable(c, type, code) == c.Type = type /\ c.Code = code

\* C15: once the templates are built, whatever packets have been answered,
\* each template has its build-time version, header length, identifier,
\* TTL or hop limit and protocol, the RST template its TCP header length 5,
\* RST and ACK set and the other flags and the window 0, the unreachable
\* templates type and code 3/3 and 1/4; and every field that is not an
\* envelope, address, port, sequence or acknowledgment number, embedded
\* data, length or checksum field is as it was built.
C15_InvariantFields ==
    Built =>
        /\ FixedV4(reset.header.ip, 6) /\ FixedRst(reset.tcp)
        /\ FixedV6(resetv6.header.ipv6, 6) /\ FixedRst(resetv6.tcp)
        /\ FixedV4(dnr.header.ip, 1) /\ FixedUnreachable(dnr.icmp, 3, 3)
        /\ FixedV6(dnrv6.header.ipv6, 58) /\ FixedUnreachable(dnrv6.icmpv6, 1, 4)
        /\ FixedOfV4(reset.header.ip) = FixedOfV4(InitReset.header.ip)
        /\ FixedOfTcp(reset.tcp) = FixedOfTcp(InitReset.tcp)
        /\ FixedOfV6(resetv6.header.ipv6) = FixedOfV6(InitResetv6.header.ipv6)
        /\ FixedOfTcp(resetv6.tcp) = FixedOfTcp(InitResetv6.tcp)
        /\ FixedOfV4(dnr.header.ip) = FixedOfV4(InitDnr(dnr).header.ip)
        /\ FixedOfIcmp(dnr.icmp) = FixedOfIcmp(InitDnr(dnr).icmp)
        /\ FixedOfV6(dnrv6.header.ipv6) = FixedOfV6(InitDnrv6(dnrv6).header.ipv6)
        /\ FixedOfIcmp(dnrv6.icmpv6) = FixedOfIcmp(InitDnrv6(dnrv6).icmpv6)

\* Each of the four templates has been used for a response: the loop is at
\* DivertRecv and no template has the variable fields it was built with.
C15_Witness ==
    /\ pc = "recv"
    /\ reset.tcp.DstPort # 0 /\ resetv6.tcp.DstPort # 0
    /\ dnr.header.ip.DstAddr # UINT32(0) /\ dnrv6.header.ipv6.DstAddr # Zeros(16)
    /\ dnr.data[1] # UNINIT /\ dnrv6.data[1] # UNINIT
    /\ FixedRst(reset.tcp) /\ FixedUnreachable(dnrv6.icmpv6, 1, 4)

\* The buffer p, of the template whose name is buf, after the loop body's
\* assignments for the packet of this iteration, and after the checksums
\* are finalized over len bytes.
Rewritten(buf, p) ==
    CASE buf = "reset" -> SynthReset(p, packet, hdr)
      [] buf = "resetv6" -> SynthResetv6(p, packet, hdr)
      [] buf = "dnr" -> SynthDnr(p, packet, hdr)
      [] buf = "dnrv6" -> SynthDnrv6(p, packet, hdr)
Finalized(buf, p, len) ==
    CASE buf = "reset" -> CalcChecksumsTCPPACKET(p, len)
      [] buf = "resetv6" -> CalcChecksumsTCPV6PACKET(p, len)
      [] buf = "dnr" -> CalcChecksumsICMPPACKET(p, len)
      [] buf = "dnrv6" -> CalcChecksumsICMPV6PACKET(p, len)

\* The bytes b, checksum field and all, sum to 0xFFFF in one's complement.
SumsToOnes(b) == Fold16(WordSum(b, 1, 0)) = 65535

\* The checksums of the bytes sent are those of the standard algorithm over
\* the length sent: the IPv4 header checksum, and the TCP, ICMP or ICMPv6
\* checksum (TCP and ICMPv6 with the pseudo-header).
ChecksumsValid(c) ==
    LET sent == SentBytes(c)
        upper == SentUpper(c)
        proto == SentProtocol(c)
    IN  IF IsV4(c)
        THEN /\ SumsToOnes(SubSeq(sent, 1, 20))
             /\ IF IsRst(c)
                THEN SumsToOnes(SentSrcAddr(c) \o SentDstAddr(c) \o << 0, proto >>
                                \o BE16(Len(upper)) \o upper)
                ELSE SumsToOnes(upper)
        ELSE SumsToOnes(SentSrcAddr(c) \o SentDstAddr(c) \o BE32(Len(upper))
                        \o << 0, 0, 0, proto >> \o upper)

\* C16: every DivertSend comes right after a DivertHelperCalcChecksums on
\* the same buffer with the same length and finds the buffer as that call
\* left it; the buffer then holds every field the loop body writes for the
\* packet of this iteration (writing them again and finalizing again would
\* change nothing), and the checksums of the bytes sent are valid over the
\* length sent.
C16_FinalizedThenSent ==
    \A k \in DOMAIN calls :
        IsSend(calls[k]) =>
            /\ k > 1 /\ IsChecksum(calls[k - 1])
            /\ calls[k - 1].buf = calls[k].buf
            /\ calls[k - 1].len = calls[k].len
            /\ calls[k - 1].pkt = calls[k].pkt
            /\ calls[k].pkt = Finalized(calls[k].buf,
                                        Rewritten(calls[k].buf, calls[k].pkt),
                                        calls[k].len)
            /\ ChecksumsValid(calls[k])

\* A RST over IPv4 was sent, 56 bytes with the envelope, right after its
\* checksums were finalized over 56 bytes, for a packet with a payload.
C16_Witness ==
    \E k \in DOMAIN calls :
        /\ k > 1 /\ IsSend(calls[k]) /\ calls[k].buf = "reset"
        /\ IsChecksum(calls[k - 1]) /\ calls[k - 1].len = 56 /\ calls[k].len = 56
        /\ hdr.payload_len > 0
        /\ ChecksumsValid(calls[k])

\* The bytes DivertRecv reported for the packet of this iteration.
Reported == SubSeq(packet.data, 1, ppacket_len - SizeofDIVERT_PACKET)

\* The receive buffer and the template buf as they are when the packet of
\* this iteration is the first the process receives.
FirstPacket ==
    [IfIdx |-> packet.IfIdx, SubIfIdx |-> packet.SubIfIdx, Direction |-> packet.Direction,
     data |-> Reported]
FirstUse(buf) ==
    CASE buf = "reset" -> InitReset
      [] buf = "resetv6" -> InitResetv6
      [] buf = "dnr" -> InitDnr(StackICMPPACKET)
      [] buf = "dnrv6" -> InitDnrv6(StackICMPV6PACKET)

\* The response the process hands to DivertSend from the template buf, over
\* len bytes, when the packet of this iteration is the first it receives.
FirstResponse(buf, len) ==
    LET p == FirstUse(buf)
        q == CASE buf = "reset" -> SynthReset(p, FirstPacket, hdr)
               [] buf = "resetv6" -> SynthResetv6(p, FirstPacket, hdr)
               [] buf = "dnr" -> SynthDnr(p, FirstPacket, hdr)
               [] buf = "dnrv6" -> SynthDnrv6(p, FirstPacket, hdr)
    IN  Finalized(buf, q, len)

\* C17: the envelope and the bytes of every response handed to DivertSend
\* are those the process emits for the same packet when it is the first
\* packet it receives: nothing of the response comes from the packets
\* received before.
C17_ResponseOfPacketAlone ==
    \A k \in DOMAIN calls :
        IsSend(calls[k]) =>
            LET first == [calls[k] EXCEPT !.pkt = FirstResponse(calls[k].buf, calls[k].len)]
            IN  /\ SentEnvelope(calls[k]) = SentEnvelope(first)
                /\ SentBytes(calls[k]) = SentBytes(first)

\* The size of the buffer behind each template, for the data[] it has.
BufferSize(buf, p) ==
    CASE buf = "reset" -> SizeofTCPPACKET
      [] buf = "resetv6" -> SizeofTCPV6PACKET
      [] buf = "dnr" -> SizeofICMPPACKET + Len(p.data)
      [] buf = "dnrv6" -> SizeofICMPV6PACKET + Len(p.data)

\* The number of bytes of data[] a response of len bytes carries.
DataSent(buf, len) ==
    IF buf = "dnr" THEN len - SizeofICMPPACKET ELSE len - SizeofICMPV6PACKET

\* C18: data[] of the ICMP template has 15*4 + 8 + 1 bytes and that of the
\* ICMPv6 template 40 + 20; the 4*h + 8 bytes copied for any IPv4 header
\* length h in 0..15, and the 60 bytes copied on the IPv6 path, fit in them;
\* and the length of every response handed to DivertSend is at most the
\* size of its buffer, the data it carries at most the size of data[].
C18_CopiesFit ==
    /\ Len(dnr.data) = (15 * 4) + 8 + 1
    /\ Len(dnrv6.data) = 40 + 20
    /\ \A h \in 0..15 :
          /\ DnrEmbedLength(h) = (4 * h) + 8
          /\ DnrEmbedLength(h) <= Len(dnr.data)
          /\ DnrSendLength(DnrEmbedLength(h)) <= BufferSize("dnr", dnr)
    /\ Dnrv6EmbedLength = 60
    /\ Dnrv6EmbedLength <= Len(dnrv6.data)
    /\ Dnrv6SendLength(Dnrv6EmbedLength) <= BufferSize("dnrv6", dnrv6)
    /\ \A k \in DOMAIN calls :
          IsSend(calls[k]) =>
              /\ calls[k].len <= BufferSize(calls[k].buf, calls[k].pkt)
              /\ IsUnreachable(calls[k]) =>
                    DataSent(calls[k].buf, calls[k].len) <= Len(calls[k].pkt.data)

\* An ICMP response was sent for a UDP/IPv4 packet whose header has the
\* greatest length, 15 words: 68 bytes were copied into the 69 of data[].
C18_Witness ==
    \E k \in DOMAIN calls :
        /\ IsSend(calls[k]) /\ calls[k].buf = "dnr"
        /\ IpHdrLength(packet.data, hdr.ip_header) = 15
        /\ DataSent("dnr", calls[k].len) = 68
        /\ Len(calls[k].pkt.data) = 69

====
